---- MODULE Spec2Model ----
(***************************************************************************)
(* Model of src/index.py: a FastAPI relay with two endpoints,              *)
(* POST /api/text-to-image and POST /api/image-to-image.  Each inbound     *)
(* request is validated against its pydantic model, turned into a form     *)
(* payload and posted once to the Creart AI upstream; the upstream outcome *)
(* is mapped back to the caller.                                           *)
(*                                                                         *)
(* Python values are tagged records: Str(s), IntVal(n), FloatVal(tenths),  *)
(* None and List (a JSON array, the wrong type for every declared field).  *)
(* Texts (response bodies, messages) are sequences of lexical tokens, so   *)
(* that concatenation, containment and JSON parsing are computed.          *)
(***************************************************************************)
EXTENDS Integers, Sequences, FiniteSets, TLC

VARIABLES
    state,               \* per request: Idle, Validating, Forwarding, Completed, Failed
    endpoint,            \* per request: the inbound path it arrived on
    raw,                 \* per request: the inbound JSON body (field -> value)
    outbound,            \* per request: the outbound POSTs issued, in order
    upstream,            \* per request: what the awaited client.post ended in
    result,              \* per request: the outcomes delivered to the caller, in order
    CREART_AI_BASE_URL   \* the module-level upstream base URL

vars == <<state, endpoint, raw, outbound, upstream, result, CREART_AI_BASE_URL>>

\* Number of inbound requests handled concurrently in SpecConc.
NumRequests == 2

Ids == 1..NumRequests

------------------------------------------------------------------------------
\* Python / JSON values.

Str(s) == [t |-> "str", v |-> s]
IntVal(n) == [t |-> "int", v |-> n]
FloatVal(tenths) == [t |-> "float", v |-> tenths]
None == [t |-> "null"]
List == [t |-> "list"]
Dict(items) == [t |-> "dict", items |-> items]

\* A field the inbound JSON body does not carry.
Absent == [t |-> "absent"]

\* Lexical tokens of a text.
LBrace == [tok |-> "{"]
RBrace == [tok |-> "}"]
Colon == [tok |-> ":"]
Ws == [tok |-> " "]
Lit(s) == [tok |-> "string", s |-> s]
Word(s) == [tok |-> "word", s |-> s]

TEXT_TO_IMAGE == "/api/text-to-image"
IMAGE_TO_IMAGE == "/api/image-to-image"
Endpoints == {TEXT_TO_IMAGE, IMAGE_TO_IMAGE}

BaseUrl == "https://api.creartai.com/api/v1"

------------------------------------------------------------------------------
\* Request models (pydantic field tables).

Text2ImageRequestNoRequiredPrompt ==
    [prompt          |-> [type |-> "str", required |-> FALSE, default |-> Str("")],
     negative_prompt |-> [type |-> "str", required |-> FALSE, default |-> Str("")],
     aspect_ratio    |-> [type |-> "str", required |-> FALSE, default |-> Str("1x1")],
     guidance_scale  |-> [type |-> "float", required |-> FALSE, default |-> FloatVal(95)],
     seed            |-> [type |-> "optional_int", required |-> FALSE, default |-> None]]

Text2ImageRequest ==
    [prompt          |-> [type |-> "str", required |-> TRUE, default |-> None],
     negative_prompt |-> [type |-> "str", required |-> FALSE, default |-> Str("")],
     aspect_ratio    |-> [type |-> "str", required |-> FALSE, default |-> Str("1x1")],
     guidance_scale  |-> [type |-> "float", required |-> FALSE, default |-> FloatVal(95)],
     seed            |-> [type |-> "optional_int", required |-> FALSE, default |-> None]]

Image2ImageRequestOptionalImage ==
    ("input_image_base64" :> [type |-> "str", required |-> FALSE, default |-> Str("")])
        @@ Text2ImageRequest

Image2ImageRequest ==
    ("input_image_base64" :> [type |-> "str", required |-> TRUE, default |-> None])
        @@ Text2ImageRequest

\* The model FastAPI validates the body of each endpoint against.
RequestModel(ep) ==
    IF ep = TEXT_TO_IMAGE THEN Text2ImageRequest ELSE Image2ImageRequest

\* pydantic's type check of one field value (lax mode, cases on which
\* pydantic v1 and v2 agree): str takes a string; float takes a float or an
\* int; Optional[int] takes an int or null.
Accepts(type, val) ==
    IF type = "str" THEN val.t = "str"
    ELSE IF type = "float" THEN val.t \in {"float", "int"}
    ELSE val.t \in {"int", "null"}

\* The value the validated model holds: an int given for a float field
\* becomes the float of the same value; anything else is kept.
Coerce(type, val) ==
    IF type = "float" /\ val.t = "int" THEN FloatVal(10 * val.v) ELSE val

\* BaseModel validation: every field given must have its declared type,
\* every required field must be given; unset fields take their defaults and
\* fields the model does not declare are ignored.
Validate(model, body) ==
    IF \A f \in DOMAIN model :
          IF f \in DOMAIN body THEN Accepts(model[f].type, body[f])
          ELSE ~model[f].required
    THEN [ok |-> TRUE,
          value |-> [f \in DOMAIN model |->
                        IF f \in DOMAIN body THEN Coerce(model[f].type, body[f])
                        ELSE model[f].default]]
    ELSE [ok |-> FALSE]

------------------------------------------------------------------------------
\* Texts, response.json() and the JSON rendering of a returned value.

ParseFail == [ok |-> FALSE]

\* One JSON value at the front of a token sequence without whitespace: a
\* string literal, null, {} or an object with one member.
RECURSIVE ParseValue(_)
ParseValue(ts) ==
    IF ts = <<>> THEN ParseFail
    ELSE LET h == Head(ts)
             r == Tail(ts)
         IN  IF h.tok = "string" THEN [ok |-> TRUE, val |-> Str(h.s), rest |-> r]
             ELSE IF h.tok = "word"
                  THEN IF h.s = "null" THEN [ok |-> TRUE, val |-> None, rest |-> r]
                       ELSE ParseFail
             ELSE IF h.tok = "{"
                  THEN IF r # <<>> /\ Head(r).tok = "}"
                       THEN [ok |-> TRUE, val |-> Dict(<<>>), rest |-> Tail(r)]
                       ELSE IF Len(r) >= 2 /\ r[1].tok = "string" /\ r[2].tok = ":"
                            THEN LET m == ParseValue(SubSeq(r, 3, Len(r)))
                                 IN  IF m.ok /\ m.rest # <<>> /\ Head(m.rest).tok = "}"
                                     THEN [ok |-> TRUE,
                                           val |-> Dict(<< <<r[1].s, m.val>> >>),
                                           rest |-> Tail(m.rest)]
                                     ELSE ParseFail
                            ELSE ParseFail
             ELSE ParseFail

NotWhitespace(tk) == tk.tok # " "

\* response.json(): the whole text, whitespace aside, must be one JSON value.
json(text) ==
    LET r == ParseValue(SelectSeq(text, NotWhitespace))
    IN  IF r.ok /\ r.rest = <<>> THEN [ok |-> TRUE, val |-> r.val] ELSE ParseFail

\* The JSON text FastAPI sends for a value the handler returns (compact).
RECURSIVE dumps(_)
dumps(val) ==
    IF val.t = "str" THEN <<Lit(val.v)>>
    ELSE IF val.t = "null" THEN <<Word("null")>>
    ELSE IF val.items = <<>> THEN <<LBrace, RBrace>>
    ELSE <<LBrace, Lit(val.items[1][1]), Colon>> \o dumps(val.items[1][2]) \o <<RBrace>>

\* s contains b as a contiguous piece.
Contains(s, b) ==
    \E k \in 0..(Len(s) - Len(b)) : SubSeq(s, k + 1, k + Len(b)) = b

------------------------------------------------------------------------------
\* What the caller gets.

HTTPException(status_code, detail, via) ==
    [kind |-> "HTTPException", status_code |-> status_code, detail |-> detail, via |-> via]

\* A value returned by a handler: FastAPI answers 200 with its JSON text.
Returned(val) ==
    [kind |-> "return", status_code |-> 200, content |-> dumps(val)]

\* FastAPI's answer to a body that fails the endpoint's model.
RequestValidationError ==
    [kind |-> "RequestValidationError", status_code |-> 422]

\* The status the handlers give every failure that is not an upstream status.
INTERNAL_ERROR_STATUS == 500

TEXT2IMAGE_TIMEOUT == 60
IMAGE2IMAGE_TIMEOUT == 120

\* httpx Response.is_success, which raise_for_status() tests.
is_success(status_code) == status_code >= 200 /\ status_code <= 299

------------------------------------------------------------------------------
\* generate_text_to_image

Text2ImageUrl(base) == <<base, "/text2image">>

\* Text2ImagePayload with the literal of the other handler.
Text2ImagePayloadOtherType(request_data) ==
    [prompt             |-> request_data.prompt,
     input_image_type   |-> Str("image2image"),
     input_image_base64 |-> Str(""),
     negative_prompt    |-> request_data.negative_prompt,
     aspect_ratio       |-> request_data.aspect_ratio,
     guidance_scale     |-> request_data.guidance_scale,
     seed               |-> request_data.seed]

Text2ImagePayload(request_data) ==
    [prompt             |-> request_data.prompt,
     input_image_type   |-> Str("text2image"),
     input_image_base64 |-> Str(""),
     negative_prompt    |-> request_data.negative_prompt,
     aspect_ratio       |-> request_data.aspect_ratio,
     guidance_scale     |-> request_data.guidance_scale,
     seed               |-> request_data.seed]

\* Text2ImageResult returning the upstream value inside an envelope.
Text2ImageResultWrapped(up) ==
    IF up.kind = "response"
    THEN IF is_success(up.status_code)
         THEN LET j == json(up.text)
              IN  IF j.ok THEN Returned(Dict(<< <<"result", j.val>> >>))
                  ELSE HTTPException(INTERNAL_ERROR_STATUS,
                           <<Word("An internal error occurred: "),
                             Word("Expecting value")>>, "Exception")
         ELSE HTTPException(up.status_code,
                  <<Word("Error from external API: ")>> \o up.text, "HTTPStatusError")
    ELSE HTTPException(INTERNAL_ERROR_STATUS,
             <<Word("An internal error occurred: ")>> \o up.msg, "Exception")

\* Text2ImageResult answering a timeout with 504 instead of the fixed status.
Text2ImageResultGatewayTimeout(up) ==
    IF up.kind = "response"
    THEN IF is_success(up.status_code)
         THEN LET j == json(up.text)
              IN  IF j.ok THEN Returned(j.val)
                  ELSE HTTPException(INTERNAL_ERROR_STATUS,
                           <<Word("An internal error occurred: "),
                             Word("Expecting value")>>, "Exception")
         ELSE HTTPException(up.status_code,
                  <<Word("Error from external API: ")>> \o up.text, "HTTPStatusError")
    ELSE HTTPException(IF up.type = "ReadTimeout" THEN 504 ELSE INTERNAL_ERROR_STATUS,
             <<Word("An internal error occurred: ")>> \o up.msg, "Exception")

\* The try block after the awaited post, given what the post ended in.
Text2ImageResult(up) ==
    IF up.kind = "response"
    THEN IF is_success(up.status_code)
         THEN LET j == json(up.text)
              IN  IF j.ok THEN Returned(j.val)
                  ELSE HTTPException(INTERNAL_ERROR_STATUS,
                           <<Word("An internal error occurred: "),
                             Word("Expecting value")>>, "Exception")
         ELSE HTTPException(up.status_code,
                  <<Word("Error from external API: ")>> \o up.text, "HTTPStatusError")
    ELSE HTTPException(INTERNAL_ERROR_STATUS,
             <<Word("An internal error occurred: ")>> \o up.msg, "Exception")

------------------------------------------------------------------------------
\* generate_image_to_image

Image2ImageUrl(base) == <<base, "/image2image">>

\* Image2ImagePayload with the image left empty, as in the other handler.
Image2ImagePayloadEmptyImage(request_data) ==
    [prompt             |-> request_data.prompt,
     input_image_type   |-> Str("image2image"),
     input_image_base64 |-> Str(""),
     negative_prompt    |-> request_data.negative_prompt,
     aspect_ratio       |-> request_data.aspect_ratio,
     guidance_scale     |-> request_data.guidance_scale,
     seed               |-> request_data.seed]

Image2ImagePayload(request_data) ==
    [prompt             |-> request_data.prompt,
     input_image_type   |-> Str("image2image"),
     input_image_base64 |-> request_data.input_image_base64,
     negative_prompt    |-> request_data.negative_prompt,
     aspect_ratio       |-> request_data.aspect_ratio,
     guidance_scale     |-> request_data.guidance_scale,
     seed               |-> request_data.seed]

\* Image2ImageResult without the HTTPStatusError clause: an upstream error
\* status falls into the generic handler.
Image2ImageResultNoStatusClause(up) ==
    IF up.kind = "response"
    THEN IF is_success(up.status_code)
         THEN LET j == json(up.text)
              IN  IF j.ok THEN Returned(j.val)
                  ELSE HTTPException(INTERNAL_ERROR_STATUS,
                           <<Word("An internal error occurred: "),
                             Word("Expecting value")>>, "Exception")
         ELSE HTTPException(INTERNAL_ERROR_STATUS,
                  <<Word("An internal error occurred: "), Word("HTTPStatusError")>>,
                  "Exception")
    ELSE HTTPException(INTERNAL_ERROR_STATUS,
             <<Word("An internal error occurred: ")>> \o up.msg, "Exception")

Image2ImageResult(up) ==
    IF up.kind = "response"
    THEN IF is_success(up.status_code)
         THEN LET j == json(up.text)
              IN  IF j.ok THEN Returned(j.val)
                  ELSE HTTPException(INTERNAL_ERROR_STATUS,
                           <<Word("An internal error occurred: "),
                             Word("Expecting value")>>, "Exception")
         ELSE HTTPException(up.status_code,
                  <<Word("Error from external API: ")>> \o up.text, "HTTPStatusError")
    ELSE HTTPException(INTERNAL_ERROR_STATUS,
             <<Word("An internal error occurred: ")>> \o up.msg, "Exception")

------------------------------------------------------------------------------
Init ==
    /\ state = [i \in Ids |-> "Idle"]
    /\ endpoint = [i \in Ids |-> "none"]
    /\ raw = [i \in Ids |-> <<>>]
    /\ outbound = [i \in Ids |-> <<>>]
    /\ upstream = [i \in Ids |-> [kind |-> "none"]]
    /\ result = [i \in Ids |-> <<>>]
    /\ CREART_AI_BASE_URL = BaseUrl

\* The inbound body with the fields it does not carry left out.
Body(fields) == [k \in {f \in DOMAIN fields : fields[f] # Absent} |-> fields[k]]

\* An inbound POST arrives on one of the two paths with some JSON body.
Receive(i, env) ==
    /\ state[i] = "Idle"
    /\ \E ep \in Endpoints, p \in env.prompt, n \in env.negative_prompt,
          a \in env.aspect_ratio, g \in env.guidance_scale, s \in env.seed,
          img \in env.input_image_base64 :
          /\ endpoint' = [endpoint EXCEPT ![i] = ep]
          /\ raw' = [raw EXCEPT ![i] =
                        Body([prompt |-> p, negative_prompt |-> n, aspect_ratio |-> a,
                              guidance_scale |-> g, seed |-> s,
                              input_image_base64 |-> img])]
    /\ state' = [state EXCEPT ![i] = "Validating"]
    /\ UNCHANGED <<outbound, upstream, result, CREART_AI_BASE_URL>>

\* FastAPI rejects a body that fails the endpoint's model: the handler is
\* never called.
RejectInvalid(i) ==
    /\ state[i] = "Validating"
    /\ ~Validate(RequestModel(endpoint[i]), raw[i]).ok
    /\ result' = [result EXCEPT ![i] = Append(@, RequestValidationError)]
    /\ state' = [state EXCEPT ![i] = "Failed"]
    /\ UNCHANGED <<endpoint, raw, outbound, upstream, CREART_AI_BASE_URL>>

\* generate_text_to_image building its payload from a request object shared
\* by the handlers in flight (the last one validated) instead of its own.
generate_text_to_image_shared(i) ==
    /\ state[i] = "Validating"
    /\ endpoint[i] = TEXT_TO_IMAGE
    /\ Validate(Text2ImageRequest, raw[i]).ok
    /\ LET others == {j \in Ids : state[j] = "Forwarding"}
           k == IF others = {} THEN i ELSE CHOOSE j \in others : TRUE
           request_data == Validate(Text2ImageRequest, raw[k]).value
           api_url == Text2ImageUrl(CREART_AI_BASE_URL)
           payload == Text2ImagePayload(request_data)
       IN  outbound' = [outbound EXCEPT ![i] =
               Append(@, [method |-> "POST", url |-> api_url, data |-> payload,
                          timeout |-> TEXT2IMAGE_TIMEOUT])]
    /\ state' = [state EXCEPT ![i] = "Forwarding"]
    /\ UNCHANGED <<endpoint, raw, upstream, result, CREART_AI_BASE_URL>>

\* generate_text_to_image up to its await: url, payload, client, post.
generate_text_to_image(i) ==
    /\ state[i] = "Validating"
    /\ endpoint[i] = TEXT_TO_IMAGE
    /\ Validate(Text2ImageRequest, raw[i]).ok
    /\ LET request_data == Validate(Text2ImageRequest, raw[i]).value
           api_url == Text2ImageUrl(CREART_AI_BASE_URL)
           payload == Text2ImagePayload(request_data)
       IN  outbound' = [outbound EXCEPT ![i] =
               Append(@, [method |-> "POST", url |-> api_url, data |-> payload,
                          timeout |-> TEXT2IMAGE_TIMEOUT])]
    /\ state' = [state EXCEPT ![i] = "Forwarding"]
    /\ UNCHANGED <<endpoint, raw, upstream, result, CREART_AI_BASE_URL>>

\* generate_image_to_image up to its await.
generate_image_to_image(i) ==
    /\ state[i] = "Validating"
    /\ endpoint[i] = IMAGE_TO_IMAGE
    /\ Validate(Image2ImageRequest, raw[i]).ok
    /\ LET request_data == Validate(Image2ImageRequest, raw[i]).value
           api_url == Image2ImageUrl(CREART_AI_BASE_URL)
           payload == Image2ImagePayload(request_data)
       IN  outbound' = [outbound EXCEPT ![i] =
               Append(@, [method |-> "POST", url |-> api_url, data |-> payload,
                          timeout |-> IMAGE2IMAGE_TIMEOUT])]
    /\ state' = [state EXCEPT ![i] = "Forwarding"]
    /\ UNCHANGED <<endpoint, raw, upstream, result, CREART_AI_BASE_URL>>

\* The awaited post ends: the upstream answers with some status and text.
UpstreamResponds(i, env) ==
    /\ state[i] = "Forwarding"
    /\ upstream[i].kind = "none"
    /\ \E sc \in env.status_code, tx \in env.text :
          upstream' = [upstream EXCEPT ![i] =
                          [kind |-> "response", status_code |-> sc, text |-> tx]]
    /\ UNCHANGED <<state, endpoint, raw, outbound, result, CREART_AI_BASE_URL>>

\* The awaited post ends: no answer within the client's timeout.
UpstreamTimesOut(i) ==
    /\ state[i] = "Forwarding"
    /\ upstream[i].kind = "none"
    /\ upstream' = [upstream EXCEPT ![i] =
                      [kind |-> "exception", type |-> "ReadTimeout", msg |-> <<>>]]
    /\ UNCHANGED <<state, endpoint, raw, outbound, result, CREART_AI_BASE_URL>>

\* The awaited post ends: the connection could not be made.
UpstreamUnreachable(i) ==
    /\ state[i] = "Forwarding"
    /\ upstream[i].kind = "none"
    /\ upstream' = [upstream EXCEPT ![i] =
                      [kind |-> "exception", type |-> "ConnectError",
                       msg |-> <<Word("All connection attempts failed")>>]]
    /\ UNCHANGED <<state, endpoint, raw, outbound, result, CREART_AI_BASE_URL>>

\* The state a delivered outcome leaves the request in.
FinalState(outcome) == IF outcome.kind = "return" THEN "Completed" ELSE "Failed"

\* generate_text_to_image_resume posting once more after a transport failure.
generate_text_to_image_resume_retry(i) ==
    /\ state[i] = "Forwarding"
    /\ endpoint[i] = TEXT_TO_IMAGE
    /\ upstream[i].kind # "none"
    /\ IF upstream[i].kind = "exception" /\ Len(outbound[i]) < 2
       THEN /\ outbound' = [outbound EXCEPT ![i] = Append(@, @[1])]
            /\ upstream' = [upstream EXCEPT ![i] = [kind |-> "none"]]
            /\ UNCHANGED <<state, result>>
       ELSE /\ result' = [result EXCEPT ![i] = Append(@, Text2ImageResult(upstream[i]))]
            /\ state' = [state EXCEPT ![i] = FinalState(Text2ImageResult(upstream[i]))]
            /\ UNCHANGED <<outbound, upstream>>
    /\ UNCHANGED <<endpoint, raw, CREART_AI_BASE_URL>>

\* generate_text_to_image from its await to its return or raise.
generate_text_to_image_resume(i) ==
    /\ state[i] = "Forwarding"
    /\ endpoint[i] = TEXT_TO_IMAGE
    /\ upstream[i].kind # "none"
    /\ result' = [result EXCEPT ![i] = Append(@, Text2ImageResult(upstream[i]))]
    /\ state' = [state EXCEPT ![i] = FinalState(Text2ImageResult(upstream[i]))]
    /\ UNCHANGED <<endpoint, raw, outbound, upstream, CREART_AI_BASE_URL>>

\* generate_image_to_image_resume swallowing a transport failure: nothing is
\* raised and nothing returned for it.
generate_image_to_image_resume_swallow(i) ==
    /\ state[i] = "Forwarding"
    /\ endpoint[i] = IMAGE_TO_IMAGE
    /\ upstream[i].kind = "response"
    /\ result' = [result EXCEPT ![i] = Append(@, Image2ImageResult(upstream[i]))]
    /\ state' = [state EXCEPT ![i] = FinalState(Image2ImageResult(upstream[i]))]
    /\ UNCHANGED <<endpoint, raw, outbound, upstream, CREART_AI_BASE_URL>>

\* generate_image_to_image from its await to its return or raise.
generate_image_to_image_resume(i) ==
    /\ state[i] = "Forwarding"
    /\ endpoint[i] = IMAGE_TO_IMAGE
    /\ upstream[i].kind # "none"
    /\ result' = [result EXCEPT ![i] = Append(@, Image2ImageResult(upstream[i]))]
    /\ state' = [state EXCEPT ![i] = FinalState(Image2ImageResult(upstream[i]))]
    /\ UNCHANGED <<endpoint, raw, outbound, upstream, CREART_AI_BASE_URL>>

------------------------------------------------------------------------------
\* Inputs.

BodyObject == <<LBrace, Lit("id"), Colon, Lit("abc"), RBrace>>
BodyObjectSpaced == <<LBrace, Ws, Lit("id"), Colon, Ws, Lit("abc"), Ws, RBrace>>
BodyString == <<Lit("bad prompt")>>
BodyPlain == <<Word("bad prompt")>>
BodyTruncated == <<LBrace, Lit("id"), Colon>>
BodyEmpty == <<>>

RichEnv ==
    [prompt |-> {Absent, List, Str(""), Str("a lion")},
     negative_prompt |-> {Absent, Str("blurry")},
     aspect_ratio |-> {Absent, Str("16x9")},
     guidance_scale |-> {Absent, FloatVal(75), IntVal(8), List},
     seed |-> {Absent, None, IntVal(42)},
     input_image_base64 |-> {Absent, List, Str(""), Str("/9j/4AAQ")},
     status_code |-> {200, 201, 302, 422, 503},
     text |-> {BodyObject, BodyObjectSpaced, BodyString, BodyPlain,
               BodyTruncated, BodyEmpty}]

ConcEnv ==
    [prompt |-> {Str("a lion"), Str("a crown")},
     negative_prompt |-> {Absent},
     aspect_ratio |-> {Absent},
     guidance_scale |-> {Absent},
     seed |-> {Absent},
     input_image_base64 |-> {Absent, Str("/9j/4AAQ")},
     status_code |-> {200, 422},
     text |-> {BodyObject}]

Step(i, env) ==
    \/ Receive(i, env)
    \/ RejectInvalid(i)
    \/ generate_text_to_image(i)
    \/ generate_image_to_image(i)
    \/ UpstreamResponds(i, env)
    \/ UpstreamTimesOut(i)
    \/ UpstreamUnreachable(i)
    \/ generate_text_to_image_resume(i)
    \/ generate_image_to_image_resume(i)

\* One request, every shape of body and of upstream answer.
Next == Step(1, RichEnv)

Spec == Init /\ [][Next]_vars

\* The same, with every step of a request that can be taken eventually
\* taken: the server runs each handler, and the awaited post always ends.
Fairness ==
    /\ WF_vars(RejectInvalid(1))
    /\ WF_vars(generate_text_to_image(1))
    /\ WF_vars(generate_image_to_image(1))
    /\ WF_vars(UpstreamResponds(1, RichEnv) \/ UpstreamTimesOut(1) \/ UpstreamUnreachable(1))
    /\ WF_vars(generate_text_to_image_resume(1))
    /\ WF_vars(generate_image_to_image_resume(1))

FairSpec == Init /\ [][Next]_vars /\ Fairness

\* Several requests at once, in any interleaving.
NextConc == \E i \in Ids : Step(i, ConcEnv)

SpecConc == Init /\ [][NextConc]_vars
------------------------------------------------------------------------------
\* Vocabulary of the properties.

Done(i) == state[i] \in {"Completed", "Failed"}

IsText(body, f) == f \in DOMAIN body /\ body[f].t = "str"

WrongType(body, f, types) == f \in DOMAIN body /\ body[f].t \notin types

\* The inbound body breaks the declared shape of its endpoint: a required
\* field is missing or a given field has the wrong type.
FailsValidation(ep, body) ==
    \/ ~IsText(body, "prompt")
    \/ WrongType(body, "negative_prompt", {"str"})
    \/ WrongType(body, "aspect_ratio", {"str"})
    \/ WrongType(body, "guidance_scale", {"float", "int"})
    \/ WrongType(body, "seed", {"int", "null"})
    \/ ep = IMAGE_TO_IMAGE /\ ~IsText(body, "input_image_base64")

Is2xx(up) == up.kind = "response" /\ up.status_code \in 200..299
IsNon2xx(up) == up.kind = "response" /\ up.status_code \notin 200..299

UpstreamPath(ep) == IF ep = TEXT_TO_IMAGE THEN "/text2image" ELSE "/image2image"

\* The value of a field of the body, or the declared default when unset.
Given(body, f, default) == IF f \in DOMAIN body THEN body[f] ELSE default

------------------------------------------------------------------------------
\* C1: a request whose body fails validation never has an outbound POST
\* issued for it, is never Forwarding, and ends as a client error (4xx).
C1_InvalidNeverForwarded ==
    \A i \in Ids :
        /\ (state[i] # "Idle" /\ FailsValidation(endpoint[i], raw[i])) =>
              /\ outbound[i] = <<>>
              /\ state[i] \in {"Validating", "Failed"}
              /\ state[i] = "Failed" =>
                    /\ Len(result[i]) = 1
                    /\ result[i][1].status_code \in 400..499
        /\ (result[i] # <<>> /\ result[i][1].kind = "RequestValidationError") =>
              outbound[i] = <<>>

C1_Witness ==
    \E i \in Ids :
        /\ state[i] = "Failed"
        /\ "prompt" \notin DOMAIN raw[i]
        /\ result[i] = <<RequestValidationError>>
        /\ outbound[i] = <<>>

\* C2: a request that passed validation has exactly one outbound POST from
\* the moment it is Forwarding to its end, whatever the upstream outcome.
C2_ExactlyOnePost ==
    \A i \in Ids :
        (state[i] # "Idle" /\ ~FailsValidation(endpoint[i], raw[i])) =>
            /\ state[i] \in {"Forwarding", "Completed", "Failed"} => Len(outbound[i]) = 1
            /\ state[i] = "Validating" => Len(outbound[i]) = 0

C2_Witness ==
    \E i \in Ids :
        /\ state[i] = "Failed"
        /\ upstream[i].kind = "exception"
        /\ Len(outbound[i]) = 1

\* C3 as stated: every request whose upstream response is 2xx ends with
\* status 200 and the upstream body.
C3_Every2xxRelayed ==
    \A i \in Ids :
        (Done(i) /\ Is2xx(upstream[i])) =>
            /\ Len(result[i]) = 1
            /\ result[i][1].kind = "return"
            /\ result[i][1].status_code = 200
            /\ json(result[i][1].content) = json(upstream[i].text)

\* C3, amended: every request whose upstream response is 2xx with a body
\* that is well-formed JSON ends Completed with status 200 and a body that
\* is the same JSON value as the upstream body.
C3_WellFormed2xxRelayed ==
    \A i \in Ids :
        (Done(i) /\ Is2xx(upstream[i]) /\ json(upstream[i].text).ok) =>
            /\ state[i] = "Completed"
            /\ Len(result[i]) = 1
            /\ result[i][1].kind = "return"
            /\ result[i][1].status_code = 200
            /\ json(result[i][1].content) = json(upstream[i].text)

C3_Witness ==
    \E i \in Ids :
        /\ state[i] = "Completed"
        /\ upstream[i] = [kind |-> "response", status_code |-> 200, text |-> BodyObject]
        /\ result[i] = <<[kind |-> "return", status_code |-> 200, content |-> BodyObject]>>

\* C4: a request whose upstream response has a non-2xx status s and text b
\* ends Failed with status s and a detail that contains b.
C4_UpstreamErrorPreserved ==
    \A i \in Ids :
        (Done(i) /\ IsNon2xx(upstream[i])) =>
            /\ state[i] = "Failed"
            /\ Len(result[i]) = 1
            /\ result[i][1].kind = "HTTPException"
            /\ result[i][1].status_code = upstream[i].status_code
            /\ Contains(result[i][1].detail, upstream[i].text)

C4_Witness ==
    \E i \in Ids :
        /\ state[i] = "Failed"
        /\ upstream[i] = [kind |-> "response", status_code |-> 422, text |-> BodyString]
        /\ result[i][1].status_code = 422
        /\ Contains(result[i][1].detail, BodyString)

\* The outbound call ended in a transport-level failure: an exception of
\* the client, or a 2xx response whose body is not JSON.
TransportFailure(up) ==
    \/ up.kind = "exception"
    \/ Is2xx(up) /\ ~json(up.text).ok

C5_Failed500(i) ==
    /\ state[i] = "Failed"
    /\ Len(result[i]) = 1
    /\ result[i][1].kind = "HTTPException"
    /\ result[i][1].status_code = 500
    /\ result[i][1].detail # <<>>

\* C5: a request whose outbound call ends in a transport-level failure
\* (timeout, connection failure, 2xx with an undecodable body) ends Failed
\* with status 500 and a non-empty detail, whatever the cause; and a request
\* whose call timed out does not stay Forwarding.
C5_TransportFailureIs500 ==
    /\ [](\A i \in Ids : (Done(i) /\ TransportFailure(upstream[i])) => C5_Failed500(i))
    /\ \A i \in Ids :
          (state[i] = "Forwarding" /\ TransportFailure(upstream[i])) ~> C5_Failed500(i)

C5_Witness ==
    \E i \in Ids :
        /\ endpoint[i] = IMAGE_TO_IMAGE
        /\ upstream[i].kind = "exception"
        /\ upstream[i].type = "ReadTimeout"
        /\ C5_Failed500(i)

\* C6: every POST of the text-to-image operation carries an empty
\* input_image_base64 and input_image_type "text2image", and goes to
\* <upstream base>/text2image, whatever the request's fields.
C6_Text2ImagePayload ==
    \A i \in Ids :
        endpoint[i] = TEXT_TO_IMAGE =>
            \A k \in 1..Len(outbound[i]) :
                /\ outbound[i][k].method = "POST"
                /\ outbound[i][k].url = <<BaseUrl, "/text2image">>
                /\ outbound[i][k].data.input_image_base64 = Str("")
                /\ outbound[i][k].data.input_image_type = Str("text2image")

C6_Witness ==
    \E i \in Ids :
        /\ endpoint[i] = TEXT_TO_IMAGE
        /\ IsText(raw[i], "input_image_base64")
        /\ raw[i].input_image_base64 # Str("")
        /\ Len(outbound[i]) = 1
        /\ outbound[i][1].data.input_image_base64 = Str("")

\* C7: every POST of the image-to-image operation carries the inbound
\* input_image_base64 unchanged and input_image_type "image2image", and goes
\* to the /image2image path of the fixed upstream base.
C7_Image2ImagePayload ==
    \A i \in Ids :
        endpoint[i] = IMAGE_TO_IMAGE =>
            \A k \in 1..Len(outbound[i]) :
                /\ outbound[i][k].method = "POST"
                /\ outbound[i][k].url = <<BaseUrl, "/image2image">>
                /\ outbound[i][k].data.input_image_base64 = raw[i].input_image_base64
                /\ outbound[i][k].data.input_image_type = Str("image2image")

C7_Witness ==
    \E i \in Ids :
        /\ endpoint[i] = IMAGE_TO_IMAGE
        /\ Len(outbound[i]) = 1
        /\ raw[i].input_image_base64 = Str("/9j/4AAQ")
        /\ outbound[i][1].data.input_image_base64 = Str("/9j/4AAQ")

\* C8 as stated: every request with an outbound POST has a non-empty prompt
\* and, on image-to-image, a non-empty input_image_base64.
C8_ForwardedNonEmpty ==
    \A i \in Ids :
        outbound[i] # <<>> =>
            /\ IsText(raw[i], "prompt")
            /\ raw[i].prompt # Str("")
            /\ endpoint[i] = IMAGE_TO_IMAGE =>
                  /\ IsText(raw[i], "input_image_base64")
                  /\ raw[i].input_image_base64 # Str("")

\* C8, amended: every request with an outbound POST has a prompt that is
\* present in the inbound body and forwarded as text, and on image-to-image
\* an input_image_base64 that is present and forwarded as text; either may
\* be the empty string.
C8_ForwardedPresentText ==
    \A i \in Ids :
        outbound[i] # <<>> =>
            /\ "prompt" \in DOMAIN raw[i]
            /\ outbound[i][1].data.prompt.t = "str"
            /\ endpoint[i] = IMAGE_TO_IMAGE =>
                  /\ "input_image_base64" \in DOMAIN raw[i]
                  /\ outbound[i][1].data.input_image_base64.t = "str"

C8_Witness ==
    \E i \in Ids :
        /\ endpoint[i] = IMAGE_TO_IMAGE
        /\ Len(outbound[i]) = 1
        /\ raw[i].prompt = Str("")
        /\ raw[i].input_image_base64 = Str("")
        /\ outbound[i][1].data.prompt = Str("")
        /\ outbound[i][1].data.input_image_base64 = Str("")

\* The moves a request may make.
C9_Move(from, to) ==
    \/ to = from
    \/ from = "Idle" /\ to = "Validating"
    \/ from = "Validating" /\ to \in {"Forwarding", "Failed"}
    \/ from = "Forwarding" /\ to \in {"Completed", "Failed"}

\* Exactly one outcome at the end, of the kind the end state says, and none
\* before it.
C9_OneOutcome(i) ==
    /\ ~Done(i) => result[i] = <<>>
    /\ Done(i) => Len(result[i]) = 1
    /\ state[i] = "Completed" => result[i][1].kind = "return"
    /\ state[i] = "Failed" =>
          \/ result[i][1].kind = "RequestValidationError" /\ outbound[i] = <<>>
          \/ /\ result[i][1].kind = "HTTPException"
             /\ result[i][1].via \in {"HTTPStatusError", "Exception"}
             /\ outbound[i] # <<>>

\* C9: a request only moves Validating -> Forwarding -> Completed|Failed or
\* Validating -> Failed (the latter only on a validation error), never back
\* and never out of Completed or Failed; it ends with exactly one outcome;
\* and, the awaited call always ending, it does end.
C9_Lifecycle ==
    /\ [][\A i \in Ids :
            /\ C9_Move(state[i], state'[i])
            /\ (state[i] = "Validating" /\ state'[i] = "Failed") =>
                  result'[i] = <<RequestValidationError>>
            /\ Done(i) => result'[i] = result[i]]_vars
    /\ [](\A i \in Ids : C9_OneOutcome(i))
    /\ \A i \in Ids : (state[i] = "Validating") ~> Done(i)

C9_Witness ==
    \E i \in Ids :
        /\ state[i] = "Failed"
        /\ endpoint[i] = IMAGE_TO_IMAGE
        /\ upstream[i].kind = "exception"
        /\ Len(result[i]) = 1

\* The payload, target and outcome of request i as its own body and its own
\* upstream answer alone determine them.
C10_OwnPayload(i) ==
    \A k \in 1..Len(outbound[i]) :
        LET d == outbound[i][k].data
        IN  /\ outbound[i][k].url = <<BaseUrl, UpstreamPath(endpoint[i])>>
            /\ d.prompt = raw[i].prompt
            /\ d.input_image_base64 =
                  (IF endpoint[i] = TEXT_TO_IMAGE THEN Str("")
                   ELSE raw[i].input_image_base64)
            /\ d.negative_prompt = Given(raw[i], "negative_prompt", Str(""))
            /\ d.aspect_ratio = Given(raw[i], "aspect_ratio", Str("1x1"))
            /\ d.seed = Given(raw[i], "seed", None)
            /\ "guidance_scale" \notin DOMAIN raw[i] => d.guidance_scale = FloatVal(95)

C10_OwnOutcome(i) ==
    Done(i) =>
        /\ Len(result[i]) = 1
        /\ upstream[i].kind = "none" => result[i][1].kind = "RequestValidationError"
        /\ upstream[i].kind = "exception" => result[i][1].status_code = 500
        /\ IsNon2xx(upstream[i]) =>
              /\ result[i][1].status_code = upstream[i].status_code
              /\ Contains(result[i][1].detail, upstream[i].text)
        /\ (Is2xx(upstream[i]) /\ json(upstream[i].text).ok) =>
              /\ result[i][1].kind = "return"
              /\ json(result[i][1].content) = json(upstream[i].text)

\* Request i can take its next step now, whatever the others are doing.
C10_NotBlocked(i) ==
    /\ state[i] = "Validating" =>
          ENABLED (RejectInvalid(i) \/ generate_text_to_image(i)
                     \/ generate_image_to_image(i))
    /\ (state[i] = "Forwarding" /\ upstream[i].kind # "none") =>
          ENABLED (generate_text_to_image_resume(i) \/ generate_image_to_image_resume(i))

\* C10: with several requests in flight in any interleaving, each request's
\* payload, target path and outcome are those of its own input and its own
\* upstream answer, a request waiting in Forwarding blocks no other, and the
\* upstream base URL never changes.
C10_Independent ==
    /\ CREART_AI_BASE_URL = BaseUrl
    /\ \A i \in Ids : C10_OwnPayload(i) /\ C10_OwnOutcome(i) /\ C10_NotBlocked(i)

C10_Witness ==
    \E i, j \in Ids :
        /\ i # j
        /\ state[i] = "Forwarding" /\ upstream[i].kind = "none"
        /\ state[j] = "Completed"
        /\ Len(outbound[j]) = 1 /\ Len(outbound[i]) = 1
        /\ outbound[i][1].data.prompt # outbound[j][1].data.prompt
        /\ outbound[i][1].url # outbound[j][1].url
====
